---- MODULE Spec2Model ----
(***************************************************************************)
(* Escrow ledger and deal state machine of the Gift Castle bot             *)
(* (src/server.js).                                                        *)
(*                                                                         *)
(* The bot is a single Node.js process.  Every update is served by an      *)
(* async handler that runs without interruption up to its next `await`;    *)
(* the handlers of different updates interleave at the awaits.  A handler  *)
(* is therefore modelled as a chain of actions, one per synchronous        *)
(* segment, and the handlers in flight are kept in `procs`.                *)
(*                                                                         *)
(* Amounts are JavaScript numbers that the code rounds with toFixed(8).    *)
(* They are modelled as integers counting 10^-9 TON, so that an amount     *)
(* with a ninth fractional digit exists and toFixed(8) has work to do.     *)
(* Binary floating point representation error is outside the model.        *)
(*                                                                         *)
(* Of a deal record the model keeps seller, buyer, price, status, locked   *)
(* and created_at (a logical clock); title, desc, type and the other       *)
(* timestamps influence no decision of the code and are left out.  Of the  *)
(* users file it keeps the sequence counter users._seq.                    *)
(***************************************************************************)
EXTENDS Integers, FiniteSets, Sequences, TLC

VARIABLES
    balances,   \* in-memory `balances`: party -> free balance
    deals,      \* in-memory `deals`:    deal id -> deal record
    logs,       \* in-memory `logs`:     deal id -> completion record
    seq,        \* in-memory `users._seq`
    dBalances,  \* contents of data/balances.json
    dDeals,     \* contents of data/deals.json
    dLogs,      \* contents of data/logs.json
    dSeq,       \* `_seq` inside data/users.json
    procs,      \* handlers suspended at an await: slot -> frame
    clock,      \* logical time of the last deal creation (created_at)
    buys,       \* history: successful buys per deal (keyed by created_at)
    credited,   \* history: amount credited to the seller per deal
    faults,     \* history: crashes and failed file writes so far
    gives       \* history: balances credited by /givebalance so far

vars == <<balances, deals, logs, seq, dBalances, dDeals, dLogs, dSeq,
          procs, clock, buys, credited, faults, gives>>

mem  == <<balances, deals, logs, seq>>
disk == <<dBalances, dDeals, dLogs, dSeq>>
hist == <<clock, buys, credited, faults, gives>>

----------------------------------------------------------------------------
(* Bounds of the model *)

\* number of parties (Telegram user ids 1..NumParties)
NumParties == 2
\* number of deals created in one run
MaxCreates == 3
\* number of handlers suspended at an await at the same time
MaxInFlight == 1
\* balance every party holds at start-up, in units of 10^-8 TON
InitBalanceUnits == 2
\* number of crashes and failed file writes in one run
MaxFaults == 1
\* number of /givebalance commands that credit a balance in one run
MaxGives == 1
\* The id space of the code, 'A'..'Z' x 1000..9999 starting at A7342, is
\* scaled down: the last letter (code: 'Z'), the largest number (code:
\* 9999), the number a new letter starts with (code: 1000) and the number
\* the first letter starts with (code: 7342).
SeqLastLetter == 2
SeqMaxNumber == 1
SeqResetNumber == 1
SeqStartNumber == 1

\* number of nextDealId calls in one run of the generator by itself
MaxCalls == 3

\* the id space as the code has it: character codes of 'A' and 'Z', the
\* largest number, the number a new letter starts with and the number the
\* first letter starts with
LetterA == 65
LetterZ == 90
NumberMax == 9999
NumberReset == 1000
NumberStart == 7342

\* 10^-9 TON per unit of toFixed(8) precision
SubUnits == 10
\* `deal.buyer` of a deal nobody has bought (the field is absent)
NoBuyer == 0
\* an empty slot of `procs`
Idle == [op |-> "idle"]

Parties == 1..NumParties
Slots == 1..MaxInFlight
Serials == 1..MaxCreates
\* parsed keypad buffers offered to createDeal, in 10^-9 TON
PriceInputs == {0, 16}
\* the same with a buffer below half a unit of toFixed(8) precision, such as
\* "0,000000004"
FinePriceInputs == PriceInputs \cup {4}

\* the configured operator: an identity of its own next to the parties
OWNER_ID == NumParties + 1
\* everyone who can send the bot a message
Callers == Parties \cup {OWNER_ID}
\* parts[2] of a /givebalance message: a token that Number() parses to an
\* amount in 10^-9 TON, or one that it parses to NaN
Num(n) == [kind |-> "num", val |-> n]
NotANumber == [kind |-> "word", val |-> 0]
AmountTokens == {NotANumber, Num(0 - 30), Num(16)}
\* what follows the command word: no argument, a target only, or a target
\* and an amount token
GiveArgs ==
    {[n |-> 0, target |-> 1, amount |-> NotANumber]}
    \cup {[n |-> 1, target |-> t, amount |-> NotANumber] : t \in Parties}
    \cup {[n |-> 2, target |-> t, amount |-> a] :
              t \in Parties, a \in AmountTokens}
\* the `id` of a frame that works on no deal
NoDeal == <<0, 0>>

----------------------------------------------------------------------------
(* Pure helpers *)

\* Number(x.toFixed(8)): round to the nearest multiple of 10^-8, ties away
\* from zero
ToFixed8Abs(x) == ((x + (SubUnits \div 2)) \div SubUnits) * SubUnits
ToFixed8(x) == IF x >= 0 THEN ToFixed8Abs(x) ELSE 0 - ToFixed8Abs(0 - x)

\* `#${letter}${number}`
DealIdOf(s) == <<s.letter, s.number>>

\* Advance that leaves a letter one number early
AdvanceSkipsLast(s, first, last, max, reset) ==
    IF s.number + 1 >= max
    THEN IF s.letter + 1 > last
         THEN [letter |-> first, number |-> reset]
         ELSE [letter |-> s.letter + 1, number |-> reset]
    ELSE [letter |-> s.letter, number |-> s.number + 1]

\* the counter after one nextDealId call, for letters first..last and
\* numbers that run up to max and start again at reset
Advance(s, first, last, max, reset) ==
    IF s.number + 1 > max
    THEN IF s.letter + 1 > last
         THEN [letter |-> first, number |-> reset]
         ELSE [letter |-> s.letter + 1, number |-> reset]
    ELSE [letter |-> s.letter, number |-> s.number + 1]

\* on the scaled id space
AdvanceSeq(s) == Advance(s, 1, SeqLastLetter, SeqMaxNumber, SeqResetNumber)

\* on the id space of the code
AdvanceSeqFull(s) == Advance(s, LetterA, LetterZ, NumberMax, NumberReset)

\* the decimal digits of a number, as character codes
RECURSIVE Digits(_)
Digits(n) ==
    IF n < 10 THEN <<48 + n>> ELSE Digits(n \div 10) \o <<48 + (n % 10)>>

\* `#${letter}${number}` as the character codes of the string
IdText(s) == <<35, s.letter>> \o Digits(s.number)

\* every id nextDealId can hand out
Letters == 1..SeqLastLetter
Numbers == {SeqStartNumber} \cup (SeqResetNumber..SeqMaxNumber)
DealIds == Letters \X Numbers

\* Number(balances[p] || 0)
BalanceOf(b, p) == b[p]

\* sum of a function's values over a finite domain
RECURSIVE SumOver(_, _)
SumOver(f, S) ==
    IF S = {} THEN 0
    ELSE LET x == CHOOSE y \in S : TRUE IN f[x] + SumOver(f, S \ {x})

LockedOf(d) == [id \in DOMAIN d |-> d[id].locked]
\* sum of balances + sum of deal.locked
Total(b, d) == SumOver(b, DOMAIN b) + SumOver(LockedOf(d), DOMAIN d)

FreeSlots == {s \in DOMAIN procs : procs[s].op = "idle"}
FreeSlot == CHOOSE s \in FreeSlots : \A t \in FreeSlots : s <= t

Put(f, k, v) == [x \in DOMAIN f \cup {k} |-> IF x = k THEN v ELSE f[x]]

----------------------------------------------------------------------------
Init ==
    /\ balances = [p \in Parties |-> InitBalanceUnits * SubUnits]
    /\ deals = <<>>
    /\ logs = <<>>
    /\ seq = [letter |-> 1, number |-> SeqStartNumber]
    /\ dBalances = balances
    /\ dDeals = deals
    /\ dLogs = logs
    /\ dSeq = seq
    /\ procs = [s \in Slots |-> Idle]
    /\ clock = 0
    /\ buys = [g \in Serials |-> 0]
    /\ credited = [g \in Serials |-> 0]
    /\ faults = 0
    /\ gives = 0

----------------------------------------------------------------------------
(* Record transformers and guards of the handlers *)

\* num_done: `!priceVal || isNaN(priceVal) || priceVal <= 0` rejects
PriceAccepted(priceVal) == ~(priceVal = 0 \/ priceVal <= 0)

\* the deal record built by num_done
NewDeal(seller, priceVal, now) ==
    [seller |-> seller, buyer |-> NoBuyer, price |-> ToFixed8(priceVal),
     status |-> "open", locked |-> 0, created_at |-> now]

\* BuyAllowed without the status test
BuyAllowedAlways(d) == TRUE

\* buy_: `deal.status !== "open"` rejects
BuyAllowed(d) == d.status = "open"

\* Affordable without the balance test
AffordableAlways(bal, price) == TRUE

\* buy_: `bal < price` rejects
Affordable(bal, price) == ~(bal < price)

\* Debit that takes the price twice
DebitTwice(bal, price) == ToFixed8(bal - price - price)

\* buy_: Number((bal - price).toFixed(8))
Debit(bal, price) == ToFixed8(bal - price)

\* buy_: deal.buyer, deal.locked, deal.status
LockDeal(d, buyer) ==
    [d EXCEPT !.buyer = buyer, !.locked = d.price, !.status = "in_progress"]

\* MarkDealSent that puts the deal back on offer
MarkDealSentReopen(d) == [d EXCEPT !.status = "open"]

\* seller_sent_: deal.status
MarkDealSent(d) == [d EXCEPT !.status = "sent_to_support"]

\* buyer_received_: `!deal.buyer` rejects
HasBuyer(d) == d.buyer # NoBuyer

\* buyer_received_: Number((Number(balances[sellerId] || 0) + amount).toFixed(8))
Credit(bal, amount) == ToFixed8(bal + amount)

\* SettleDeal that forgets `deal.locked = 0`
SettleDealKeepLocked(d) == [d EXCEPT !.status = "done"]

\* buyer_received_: deal.status, deal.locked
SettleDeal(d) == [d EXCEPT !.status = "done", !.locked = 0]

\* FlagProblem that releases the locked amount
FlagProblemUnlock(d) == [d EXCEPT !.locked = 0]

\* buyer_problem_: no field of the deal is assigned
FlagProblem(d) == d

\* IsOwner that lets everyone pass
IsOwnerAnyone(from) == TRUE

\* /givebalance: `Number(ctx.from.id) !== OWNER_ID` returns
IsOwner(from) == ~(from # OWNER_ID)

\* /givebalance: `parts.length < 3` (parts[0] is the command word)
TooFewParts(args) == args.n + 1 < 3

\* /givebalance: isNaN(Number(parts[2]))
IsNaN(tok) == tok.kind # "num"

\* GiveCredit that skips toFixed(8)
GiveCreditUnrounded(bal, amt) == bal + amt

\* /givebalance: Number((Number(balances[target] || 0) + amt).toFixed(8))
GiveCredit(bal, amt) == ToFixed8(bal + amt)

\* buyer_received_: logEntry
LogEntry(id, seller, buyer, amount) ==
    [id |-> id, seller |-> seller, buyer |-> buyer, amount |-> amount]

\* the frame of a handler suspended in `await saveJson(file, data)`: the
\* data was serialised when saveJson was called, so the frame carries it
Frame(op, pc, id, snap, loc) ==
    [op |-> op, pc |-> pc, id |-> id, snap |-> snap, loc |-> loc]

Suspend(s, f) == procs' = [procs EXCEPT ![s] = f]
Return(s) == procs' = [procs EXCEPT ![s] = Idle]
At(s, op, pc) == procs[s].op = op /\ procs[s].pc = pc

----------------------------------------------------------------------------
(* createDeal: callback_query num_done *)

CreateRejected(p, priceVal) ==
    /\ ~PriceAccepted(priceVal)
    /\ UNCHANGED vars

CreateDeal(p, priceVal) ==
    /\ PriceAccepted(priceVal)
    /\ clock < MaxCreates
    /\ FreeSlots # {}
    /\ LET id == DealIdOf(seq)
           deal == NewDeal(p, priceVal, clock + 1)
       IN /\ seq' = AdvanceSeq(seq)
          /\ dSeq' = seq'                      \* fs.writeJsonSync(USERS_FILE)
          /\ deals' = Put(deals, id, deal)
          /\ clock' = clock + 1
          /\ Suspend(FreeSlot, Frame("create", "saveDeals", id, deals', p))
    /\ UNCHANGED <<balances, logs, dBalances, dDeals, dLogs, buys, credited,
                 faults, gives>>

CreateDealsSaved(s) ==
    /\ At(s, "create", "saveDeals")
    /\ dDeals' = procs[s].snap
    /\ Suspend(s, [procs[s] EXCEPT !.pc = "saveUsers", !.snap = seq])
    /\ UNCHANGED <<mem, dBalances, dLogs, dSeq, hist>>

CreateUsersSaved(s) ==
    /\ At(s, "create", "saveUsers")
    /\ dSeq' = procs[s].snap
    /\ Return(s)
    /\ UNCHANGED <<mem, dBalances, dDeals, dLogs, hist>>

----------------------------------------------------------------------------
(* buy: callback_query buy_<id> *)

BuyNotFound(p, id) ==
    /\ id \notin DOMAIN deals
    /\ UNCHANGED vars

BuyNotOpen(p, id) ==
    /\ id \in DOMAIN deals
    /\ ~BuyAllowed(deals[id])
    /\ UNCHANGED vars

BuyInsufficient(p, id) ==
    /\ id \in DOMAIN deals
    /\ BuyAllowed(deals[id])
    /\ ~Affordable(BalanceOf(balances, p), deals[id].price)
    /\ UNCHANGED vars

BuyAccepted(p, id) ==
    /\ id \in DOMAIN deals
    /\ BuyAllowed(deals[id])
    /\ Affordable(BalanceOf(balances, p), deals[id].price)
    /\ FreeSlots # {}
    /\ balances' = [balances EXCEPT
                      ![p] = Debit(BalanceOf(balances, p), deals[id].price)]
    /\ deals' = [deals EXCEPT ![id] = LockDeal(@, p)]
    /\ buys' = [buys EXCEPT ![deals[id].created_at] = @ + 1]
    /\ Suspend(FreeSlot, Frame("buy", "saveBalances", id, balances', p))
    /\ UNCHANGED <<logs, seq, disk, clock, credited, faults, gives>>

BuyBalancesSaved(s) ==
    /\ At(s, "buy", "saveBalances")
    /\ dBalances' = procs[s].snap
    /\ Suspend(s, [procs[s] EXCEPT !.pc = "saveDeals", !.snap = deals])
    /\ UNCHANGED <<mem, dDeals, dLogs, dSeq, hist>>

BuyDealsSaved(s) ==
    /\ At(s, "buy", "saveDeals")
    /\ dDeals' = procs[s].snap
    /\ Suspend(s, [procs[s] EXCEPT !.pc = "notify", !.snap = 0])
    /\ UNCHANGED <<mem, dBalances, dLogs, dSeq, hist>>

\* BuyNotifyFailed that undoes the purchase
BuyNotifyFailedUndo(s) ==
    /\ At(s, "buy", "notify")
    /\ procs[s].id \in DOMAIN deals
    /\ balances' = [balances EXCEPT ![procs[s].loc] =
                       ToFixed8(@ + deals[procs[s].id].locked)]
    /\ deals' = [deals EXCEPT ![procs[s].id] =
                    [@ EXCEPT !.status = "open", !.locked = 0]]
    /\ Return(s)
    /\ UNCHANGED <<logs, seq, disk, hist>>

\* editMessageMedia throws: the handler ends before the last save
BuyNotifyFailed(s) ==
    /\ At(s, "buy", "notify")
    /\ Return(s)
    /\ UNCHANGED <<mem, disk, hist>>

BuyNotified(s) ==
    /\ At(s, "buy", "notify")
    /\ Suspend(s, [procs[s] EXCEPT !.pc = "saveDealsAgain", !.snap = deals])
    /\ UNCHANGED <<mem, disk, hist>>

BuyDealsSavedAgain(s) ==
    /\ At(s, "buy", "saveDealsAgain")
    /\ dDeals' = procs[s].snap
    /\ Return(s)
    /\ UNCHANGED <<mem, dBalances, dLogs, dSeq, hist>>

----------------------------------------------------------------------------
(* markSent: callback_query seller_sent_<id> *)

MarkSentNotFound(p, id) ==
    /\ id \notin DOMAIN deals
    /\ UNCHANGED vars

MarkSent(p, id) ==
    /\ id \in DOMAIN deals
    /\ FreeSlots # {}
    /\ deals' = [deals EXCEPT ![id] = MarkDealSent(@)]
    /\ Suspend(FreeSlot, Frame("markSent", "saveDeals", id, deals', p))
    /\ UNCHANGED <<balances, logs, seq, disk, hist>>

MarkSentDealsSaved(s) ==
    /\ At(s, "markSent", "saveDeals")
    /\ dDeals' = procs[s].snap
    /\ Suspend(s, [procs[s] EXCEPT !.pc = "notify", !.snap = 0])
    /\ UNCHANGED <<mem, dBalances, dLogs, dSeq, hist>>

\* sendPhoto to the buyer throws: caught and logged, the handler goes on to
\* answer the callback
MarkSentNotifyFailed(s) ==
    /\ At(s, "markSent", "notify")
    /\ Return(s)
    /\ UNCHANGED <<mem, disk, hist>>

MarkSentNotified(s) ==
    /\ At(s, "markSent", "notify")
    /\ Return(s)
    /\ UNCHANGED <<mem, disk, hist>>

----------------------------------------------------------------------------
(* confirmReceived: callback_query buyer_received_<id> *)

ConfirmNotFound(p, id) ==
    /\ id \notin DOMAIN deals
    /\ UNCHANGED vars

ConfirmNoBuyer(p, id) ==
    /\ id \in DOMAIN deals
    /\ ~HasBuyer(deals[id])
    /\ UNCHANGED vars

\* The handler keeps `deal`, `sellerId` and `amount` across its awaits.  The
\* buyer of a deal that has one never changes, so the frame carries
\* deal.buyer as read here.
ConfirmReceived(p, id) ==
    /\ id \in DOMAIN deals
    /\ HasBuyer(deals[id])
    /\ FreeSlots # {}
    /\ LET deal == deals[id]
           sellerId == deal.seller
           amount == deal.locked
       IN /\ balances' = [balances EXCEPT
                  ![sellerId] = Credit(BalanceOf(balances, sellerId), amount)]
          /\ deals' = [deals EXCEPT ![id] = SettleDeal(@)]
          /\ credited' = [credited EXCEPT ![deal.created_at] =
                  @ + (balances'[sellerId] - balances[sellerId])]
          /\ Suspend(FreeSlot, Frame("confirm", "saveBalances", id, balances',
                  LogEntry(id, sellerId, deal.buyer, amount)))
    /\ UNCHANGED <<logs, seq, disk, clock, buys, faults, gives>>

ConfirmBalancesSaved(s) ==
    /\ At(s, "confirm", "saveBalances")
    /\ dBalances' = procs[s].snap
    /\ Suspend(s, [procs[s] EXCEPT !.pc = "saveDeals", !.snap = deals])
    /\ UNCHANGED <<mem, dDeals, dLogs, dSeq, hist>>

ConfirmDealsSaved(s) ==
    /\ At(s, "confirm", "saveDeals")
    /\ dDeals' = procs[s].snap
    /\ logs' = Put(logs, procs[s].id, procs[s].loc)
    /\ Suspend(s, [procs[s] EXCEPT !.pc = "saveLogs", !.snap = logs'])
    /\ UNCHANGED <<balances, deals, seq, dBalances, dLogs, dSeq, hist>>

ConfirmLogsSaved(s) ==
    /\ At(s, "confirm", "saveLogs")
    /\ dLogs' = procs[s].snap
    /\ Suspend(s, [procs[s] EXCEPT !.pc = "notify", !.snap = 0])
    /\ UNCHANGED <<mem, dBalances, dDeals, dSeq, hist>>

\* a message to the owner, the seller or the buyer throws: caught, the
\* handler goes on and returns
ConfirmNotifyFailed(s) ==
    /\ At(s, "confirm", "notify")
    /\ Return(s)
    /\ UNCHANGED <<mem, disk, hist>>

ConfirmNotified(s) ==
    /\ At(s, "confirm", "notify")
    /\ Return(s)
    /\ UNCHANGED <<mem, disk, hist>>

----------------------------------------------------------------------------
(* reportProblem: callback_query buyer_problem_<id> *)

ProblemNotFound(p, id) ==
    /\ id \notin DOMAIN deals
    /\ UNCHANGED vars

\* The handler touches no data: it sends a message to the owner and one to
\* the seller (both awaited, failures swallowed) and answers the callback.
ReportProblem(p, id) ==
    /\ id \in DOMAIN deals
    /\ FreeSlots # {}
    /\ deals' = [deals EXCEPT ![id] = FlagProblem(@)]
    /\ Suspend(FreeSlot, Frame("problem", "notify", id, 0, 0))
    /\ UNCHANGED <<balances, logs, seq, disk, hist>>

ProblemNotified(s) ==
    /\ At(s, "problem", "notify")
    /\ Return(s)
    /\ UNCHANGED <<mem, disk, hist>>

----------------------------------------------------------------------------
(* adminCredit: text message /givebalance [user_id] [amount] *)

\* anyone but the owner: the handler returns without a reply
GiveIgnored(from, args) ==
    /\ ~IsOwner(from)
    /\ UNCHANGED vars

\* `return ctx.reply("Использование: ...")`
GiveUsage(from, args) ==
    /\ IsOwner(from)
    /\ TooFewParts(args)
    /\ FreeSlots # {}
    /\ Suspend(FreeSlot, Frame("give", "replyUsage", NoDeal, 0, from))
    /\ UNCHANGED <<mem, disk, hist>>

\* `return ctx.reply("Укажите корректную сумму.")`
GiveBadAmount(from, args) ==
    /\ IsOwner(from)
    /\ ~TooFewParts(args)
    /\ IsNaN(args.amount)
    /\ FreeSlots # {}
    /\ Suspend(FreeSlot, Frame("give", "replyBadAmount", NoDeal, 0, from))
    /\ UNCHANGED <<mem, disk, hist>>

GiveAccepted(from, args) ==
    /\ IsOwner(from)
    /\ ~TooFewParts(args)
    /\ ~IsNaN(args.amount)
    /\ FreeSlots # {}
    /\ LET target == args.target
           amt == args.amount.val
           bal == GiveCredit(BalanceOf(balances, target), amt)
       IN /\ balances' = [balances EXCEPT ![target] = bal]
          /\ Suspend(FreeSlot,
                 Frame("give", "saveBalances", NoDeal, balances', from))
    /\ gives < MaxGives
    /\ gives' = gives + 1
    /\ UNCHANGED <<deals, logs, seq, disk, clock, buys, credited, faults>>

GiveBalancesSaved(s) ==
    /\ At(s, "give", "saveBalances")
    /\ dBalances' = procs[s].snap
    /\ Suspend(s, [procs[s] EXCEPT !.pc = "replyCredited", !.snap = 0])
    /\ UNCHANGED <<mem, dDeals, dLogs, dSeq, hist>>

\* the reply has gone out (and, after a credit, the message to the target,
\* whose failure is swallowed)
GiveReplied(s) ==
    /\ procs[s].op = "give"
    /\ procs[s].pc \in {"replyUsage", "replyBadAmount", "replyCredited"}
    /\ Return(s)
    /\ UNCHANGED <<mem, disk, hist>>

----------------------------------------------------------------------------
(* nextDealId by itself: num_done right after `const id = nextDealId()` *)

NextDealIdCall ==
    /\ clock < MaxCalls
    /\ seq' = AdvanceSeqFull(seq)
    /\ dSeq' = seq'                          \* fs.writeJsonSync(USERS_FILE)
    /\ clock' = clock + 1
    /\ procs' = [procs EXCEPT
                    ![1] = Frame("create", "nextDealId", IdText(seq), 0, 0)]
    /\ UNCHANGED <<balances, deals, logs, dBalances, dDeals, dLogs,
                   buys, credited, faults, gives>>

----------------------------------------------------------------------------
(* The process dies and is started again: lines 66-69 load the four files *)

Crash ==
    /\ balances' = dBalances
    /\ deals' = dDeals
    /\ logs' = dLogs
    /\ seq' = dSeq
    /\ procs' = [s \in Slots |-> Idle]
    /\ faults < MaxFaults
    /\ faults' = faults + 1
    /\ UNCHANGED <<disk, clock, buys, credited, gives>>

\* fs.writeJson rejects: the exception leaves the handler, what it changed
\* in memory stays
SaveFailed(s) ==
    /\ procs[s].op # "idle"
    /\ procs[s].pc \in {"saveBalances", "saveDeals", "saveUsers", "saveLogs",
                        "saveDealsAgain"}
    /\ Return(s)
    /\ faults < MaxFaults
    /\ faults' = faults + 1
    /\ UNCHANGED <<mem, disk, clock, buys, credited, gives>>

----------------------------------------------------------------------------
\* the handlers, each with all its outcomes
Create(p, priceVal) == CreateRejected(p, priceVal) \/ CreateDeal(p, priceVal)

Buy(p, id) ==
    \/ BuyNotFound(p, id) \/ BuyNotOpen(p, id)
    \/ BuyInsufficient(p, id) \/ BuyAccepted(p, id)

SellerSent(p, id) == MarkSentNotFound(p, id) \/ MarkSent(p, id)

BuyerReceived(p, id) ==
    \/ ConfirmNotFound(p, id) \/ ConfirmNoBuyer(p, id)
    \/ ConfirmReceived(p, id)

BuyerProblem(p, id) == ProblemNotFound(p, id) \/ ReportProblem(p, id)

GiveBalance(from, args) ==
    \/ GiveIgnored(from, args) \/ GiveUsage(from, args)
    \/ GiveBadAmount(from, args) \/ GiveAccepted(from, args)

\* a suspended handler runs on when its await settles
Resume(s) ==
    \/ CreateDealsSaved(s) \/ CreateUsersSaved(s)
    \/ BuyBalancesSaved(s) \/ BuyDealsSaved(s)
    \/ BuyNotifyFailed(s) \/ BuyNotified(s) \/ BuyDealsSavedAgain(s)
    \/ MarkSentDealsSaved(s)
    \/ MarkSentNotifyFailed(s) \/ MarkSentNotified(s)
    \/ ConfirmBalancesSaved(s) \/ ConfirmDealsSaved(s)
    \/ ConfirmLogsSaved(s)
    \/ ConfirmNotifyFailed(s) \/ ConfirmNotified(s)
    \/ ProblemNotified(s)

Next ==
    \/ \E p \in Parties, v \in PriceInputs : Create(p, v)
    \/ \E p \in Parties, id \in DealIds :
          \/ Buy(p, id)
          \/ SellerSent(p, id)
          \/ BuyerReceived(p, id)
          \/ BuyerProblem(p, id)
    \/ \E s \in Slots : Resume(s)

Spec == Init /\ [][Next]_vars

NextCrash == Next \/ Crash \/ \E s \in Slots : SaveFailed(s)

SpecCrash == Init /\ [][NextCrash]_vars

\* the running process with the operator's /givebalance command
NextAdmin ==
    \/ Next
    \/ \E from \in Callers, args \in GiveArgs : GiveBalance(from, args)
    \/ \E s \in Slots : GiveBalancesSaved(s) \/ GiveReplied(s)

SpecAdmin == Init /\ [][NextAdmin]_vars

\* the running process with prices below the precision of toFixed(8)
NextFine ==
    \/ Next
    \/ \E p \in Parties, v \in FinePriceInputs : Create(p, v)

SpecFine == Init /\ [][NextFine]_vars

\* Two handlers in flight at once, on the books as they are after two
\* createDeal calls have run to their end: both deals open and on disk.
OverlapSlots == 1..(MaxInFlight + 1)

TwoDeals ==
    LET s1 == [letter |-> 1, number |-> SeqStartNumber]
        s2 == AdvanceSeq(s1)
    IN [id \in {DealIdOf(s1), DealIdOf(s2)} |->
            IF id = DealIdOf(s1) THEN NewDeal(1, 16, 1) ELSE NewDeal(2, 16, 2)]

InitOverlap ==
    /\ balances = [p \in Parties |-> InitBalanceUnits * SubUnits]
    /\ deals = TwoDeals
    /\ logs = <<>>
    /\ seq = AdvanceSeq(AdvanceSeq([letter |-> 1, number |-> SeqStartNumber]))
    /\ dBalances = balances
    /\ dDeals = deals
    /\ dLogs = logs
    /\ dSeq = seq
    /\ procs = [s \in OverlapSlots |-> Idle]
    /\ clock = 2
    /\ buys = [g \in Serials |-> 0]
    /\ credited = [g \in Serials |-> 0]
    /\ faults = 0
    /\ gives = 0

\* Every id is on the books and createDeal is not called: no handler takes
\* its not-found return and no createDeal frame is ever suspended.
ResumeOverlap(s) ==
    \/ BuyBalancesSaved(s) \/ BuyDealsSaved(s)
    \/ BuyNotifyFailed(s) \/ BuyNotified(s) \/ BuyDealsSavedAgain(s)
    \/ MarkSentDealsSaved(s)
    \/ MarkSentNotifyFailed(s) \/ MarkSentNotified(s)
    \/ ConfirmBalancesSaved(s) \/ ConfirmDealsSaved(s)
    \/ ConfirmLogsSaved(s)
    \/ ConfirmNotifyFailed(s) \/ ConfirmNotified(s)
    \/ ProblemNotified(s)

NextOverlap ==
    \/ \E p \in Parties, id \in DealIds :
          \/ BuyNotOpen(p, id) \/ BuyInsufficient(p, id) \/ BuyAccepted(p, id)
          \/ MarkSent(p, id)
          \/ ConfirmNoBuyer(p, id) \/ ConfirmReceived(p, id)
          \/ ReportProblem(p, id)
    \/ \E s \in OverlapSlots : ResumeOverlap(s)

SpecOverlap == InitOverlap /\ [][NextOverlap]_vars

\* The sequence generator on the id space of the code, started from
\* counters at the borders of the number range, for every letter.
SeqInputs ==
    {[letter |-> l, number |-> n] :
        l \in LetterA..LetterZ,
        n \in {NumberReset, NumberStart, NumberMax - 1, NumberMax}}

InitSeq ==
    /\ seq \in SeqInputs
    /\ dSeq = seq
    /\ balances = [p \in Parties |-> InitBalanceUnits * SubUnits]
    /\ deals = <<>>
    /\ logs = <<>>
    /\ dBalances = balances
    /\ dDeals = deals
    /\ dLogs = logs
    /\ procs = [s \in Slots |-> Idle]
    /\ clock = 0
    /\ buys = [g \in Serials |-> 0]
    /\ credited = [g \in Serials |-> 0]
    /\ faults = 0
    /\ gives = 0

NextSeq == NextDealIdCall

SpecSeq == InitSeq /\ [][NextSeq]_vars

----------------------------------------------------------------------------
(* Properties *)

InEscrow == {"in_progress", "sent_to_support"}

\* what the parties hold at start-up
InitTotal == NumParties * InitBalanceUnits * SubUnits

\* no createDeal has been handed an id a second time
NoIdReused == clock <= Cardinality(DealIds)

\* the deal record under `id` before and after the step is the same deal
SameDeal(id) ==
    /\ id \in DOMAIN deals
    /\ id \in DOMAIN deals'
    /\ deals'[id].created_at = deals[id].created_at

\* C1: conservation.  Under every sequence of createDeal, buy, markSent,
\* confirmReceived and reportProblem calls the sum of all balances plus the
\* sum of all deals' locked amounts keeps its initial value.
C1_Conservation == Total(balances, deals) = InitTotal

C3_NoDoubleCredit ==
    \A id \in DOMAIN deals :
        LET d == deals[id] IN
        /\ credited[d.created_at] <= d.price
        /\ d.status = "done" => credited[d.created_at] = d.price

\* C3 witness: a done deal whose seller was credited the price, and whose
\* completion record is the one a repeated confirmReceived wrote (amount 0).
C3_Witness ==
    \E id \in DOMAIN deals :
        /\ deals[id].status = "done"
        /\ deals[id].price > 0
        /\ credited[deals[id].created_at] = deals[id].price
        /\ id \in DOMAIN logs
        /\ logs[id].amount = 0

\* C4: buy and confirmReceived are atomic on disk.  As long as no id has
\* been reused, the state loaded after a crash holds neither a debit without
\* its lock nor a credit with the lock still in place: balances plus locked
\* amounts still add up to the initial total.
C4_DurableAtomic ==
    [][(Crash /\ NoIdReused) => Total(balances', deals') = InitTotal]_vars

\* C5: a deal's locked amount is its price while the status is in_progress
\* or sent_to_support, and 0 otherwise.
C5_LockedIffInEscrow ==
    \A id \in DOMAIN deals :
        deals[id].locked =
            IF deals[id].status \in InEscrow THEN deals[id].price ELSE 0

\* the edges of the deal state machine
StatusEdges ==
    {<<"open", "in_progress">>, <<"in_progress", "sent_to_support">>,
     <<"sent_to_support", "done">>, <<"in_progress", "disputed">>,
     <<"sent_to_support", "disputed">>}

\* C6: a deal's status changes only along open -> in_progress ->
\* sent_to_support -> done or in_progress/sent_to_support -> disputed; a
\* done or disputed deal keeps its status.
C6_StatusEdges ==
    [][\A id \in DealIds :
            SameDeal(id) =>
                \/ deals'[id].status = deals[id].status
                \/ <<deals[id].status, deals'[id].status>> \in StatusEdges]_vars

\* C7: a confirmReceived call by anyone but the deal's recorded buyer changes
\* no balance and no deal.
C7_OnlyBuyerConfirms ==
    [][\A p \in Parties, id \in DealIds :
            (id \in DOMAIN deals /\ p # deals[id].buyer /\ BuyerReceived(p, id))
                => UNCHANGED <<balances, deals>>]_vars

\* C8: a confirmReceived call on a deal whose status is not sent_to_support
\* changes no balance, no deal and no completion record.
C8_ConfirmOnlyWhenSent ==
    [][\A p \in Parties, id \in DealIds :
            (/\ id \in DOMAIN deals
             /\ deals[id].status # "sent_to_support"
             /\ BuyerReceived(p, id))
                => UNCHANGED <<balances, deals, logs>>]_vars

\* C9: a markSent call changes the deal only if the status is in_progress
\* and the caller is the deal's seller.
C9_MarkSentGuarded ==
    [][\A p \in Parties, id \in DealIds :
            (/\ id \in DOMAIN deals
             /\ ~(deals[id].status = "in_progress" /\ p = deals[id].seller)
             /\ SellerSent(p, id))
                => UNCHANGED deals]_vars

\* C10: a buy of an open deal by a party holding at least the price takes
\* exactly the price from that party, records it as buyer, sets locked to the
\* price and status to in_progress, and changes no other balance or deal.
C10_BuyEffect ==
    [][\A p \in Parties, id \in DealIds :
            (/\ id \in DOMAIN deals
             /\ deals[id].status = "open"
             /\ balances[p] >= deals[id].price
             /\ Buy(p, id))
                => /\ balances' = [balances EXCEPT ![p] = @ - deals[id].price]
                   /\ deals' = [deals EXCEPT ![id] =
                          [@ EXCEPT !.buyer = p, !.locked = deals[id].price,
                                    !.status = "in_progress"]]]_vars

\* C10 witness: a buy has just debited its buyer a positive price and locked
\* it, with a second deal on the books.
C10_Witness ==
    \E s \in Slots :
        /\ procs[s].op = "buy"
        /\ procs[s].pc = "saveBalances"
        /\ procs[s].id \in DOMAIN deals
        /\ Cardinality(DOMAIN deals) >= 2
        /\ LET d == deals[procs[s].id] IN
              /\ d.buyer = procs[s].loc
              /\ d.status = "in_progress"
              /\ d.locked = d.price
              /\ d.price > 0
              /\ balances[d.buyer] = InitBalanceUnits * SubUnits - d.price

\* C11: a rejected buy (unknown deal id, deal whose status is not open, or a
\* caller whose balance is below the price) changes no balance, no deal and
\* no completion record.
C11_RejectedBuyNoEffect ==
    [][\A p \in Parties, id \in DealIds :
            (/\ \/ id \notin DOMAIN deals
                \/ deals[id].status # "open"
                \/ balances[p] < deals[id].price
             /\ Buy(p, id))
                => UNCHANGED <<balances, deals, logs>>]_vars

\* C11 witness: two rejections are on offer at once: a done deal, and an
\* open deal whose price a party cannot pay.
C11_Witness ==
    /\ \E id \in DOMAIN deals, p \in Parties :
          /\ deals[id].status = "open"
          /\ balances[p] < deals[id].price
    /\ \E id \in DOMAIN deals : deals[id].status = "done"

\* C12: a confirmReceived call by the recorded buyer on a sent_to_support
\* deal adds exactly the deal's price to the seller's balance, sets locked to
\* 0 and status to done and changes no other balance or deal; the completion
\* record the handler then stores under the deal id carries the price as its
\* amount.
C12_ConfirmEffect ==
    /\ [][\A p \in Parties, id \in DealIds :
            (/\ id \in DOMAIN deals
             /\ deals[id].status = "sent_to_support"
             /\ deals[id].buyer = p
             /\ BuyerReceived(p, id))
                => /\ balances' = [balances EXCEPT
                          ![deals[id].seller] = @ + deals[id].price]
                   /\ deals' = [deals EXCEPT ![id] =
                          [@ EXCEPT !.locked = 0, !.status = "done"]]]_vars
    /\ [][\A s \in Slots :
            ConfirmDealsSaved(s)
                => /\ procs[s].id \in DOMAIN logs'
                   /\ logs'[procs[s].id].amount = deals[procs[s].id].price]_vars

\* C13: a reportProblem call by the recorded buyer on a deal whose status is
\* in_progress or sent_to_support moves the deal's status to disputed.
C13_ProblemDisputes ==
    [][\A p \in Parties, id \in DealIds :
            (/\ id \in DOMAIN deals
             /\ deals[id].status \in InEscrow
             /\ deals[id].buyer = p
             /\ BuyerProblem(p, id))
                => deals'[id].status = "disputed"]_vars

\* C14: a reportProblem call, accepted or rejected, changes no party's
\* balance and no deal's locked amount.
C14_ProblemNoLedgerEffect ==
    [][\A p \in Parties, id \in DealIds :
            BuyerProblem(p, id)
                => /\ balances' = balances
                   /\ LockedOf(deals') = LockedOf(deals)]_vars

\* C14 witness: a reportProblem call on a deal in escrow has been accepted
\* and the deal's price is still locked.
C14_Witness ==
    \E s \in Slots :
        /\ procs[s].op = "problem"
        /\ procs[s].id \in DOMAIN deals
        /\ deals[procs[s].id].status \in InEscrow
        /\ deals[procs[s].id].locked = deals[procs[s].id].price
        /\ deals[procs[s].id].price > 0

\* C15: once a deal has a buyer, no step of any handler gives it another
\* buyer or takes the buyer away.
C15_BuyerNeverReassigned ==
    [][\A id \in DealIds :
            (SameDeal(id) /\ deals[id].buyer # NoBuyer)
                => deals'[id].buyer = deals[id].buyer]_vars

\* C15 witness: a bought deal has moved on past in_progress while a party
\* other than its buyer holds enough to pay its price.
C15_Witness ==
    \E id \in DOMAIN deals, p \in Parties :
        /\ deals[id].buyer # NoBuyer
        /\ deals[id].buyer # p
        /\ deals[id].status \in {"sent_to_support", "done"}
        /\ deals[id].price > 0
        /\ balances[p] >= deals[id].price

\* C16: every party's balance is at least 0 in every reachable state, also
\* when the operator credits balances with /givebalance.
C16_BalancesNonNegative == \A p \in Parties : balances[p] >= 0

\* C17: a /givebalance message from anyone but the operator, whatever its
\* arguments, changes no balance and no deal and starts no reply: a step
\* that changes one of these is not a step of such a message.
C17_OnlyOwnerGives ==
    [][\/ UNCHANGED <<balances, deals, procs>>
       \/ ~ \E from \in Callers \ {OWNER_ID}, args \in GiveArgs :
                GiveBalance(from, args)]_vars

\* C17 witness: a party that cannot pay an open deal could send the command
\* at a moment when the operator's own command would be carried out.
C17_Witness ==
    /\ FreeSlots # {}
    /\ gives < MaxGives
    /\ \E id \in DOMAIN deals, p \in Parties :
          /\ deals[id].status = "open"
          /\ p # OWNER_ID
          /\ balances[p] < deals[id].price

\* a /givebalance message of the operator that names a target and a numeric
\* amount
WellFormed(args) == args.n = 2 /\ args.amount.kind = "num"

C19_IdsNeverReissued ==
    [][\A p \in Parties, v \in PriceInputs :
            CreateDeal(p, v) => DealIdOf(seq) \notin DOMAIN deals]_vars

\* a < b for strings given as character codes: the first differing character
\* decides, a proper prefix comes first
StrLess(a, b) ==
    \E i \in 1..Len(b) :
        /\ \A j \in 1..(i - 1) : j <= Len(a) /\ a[j] = b[j]
        /\ (i > Len(a) \/ (i <= Len(a) /\ a[i] < b[i]))

\* the number a string of decimal digits spells
RECURSIVE DecimalValue(_)
DecimalValue(t) ==
    IF t = <<>> THEN 0
    ELSE 10 * DecimalValue(SubSeq(t, 1, Len(t) - 1)) + (t[Len(t)] - 48)

\* C20: a nextDealId call returns '#', the counter's letter and the
\* counter's number in decimal, and leaves the counter at {letter, number+1}
\* if number < 9999, at {next letter, 1000} if number = 9999 and letter < 'Z',
\* and at {A, 1000} if the counter was {Z, 9999}; the call after the one that
\* returned #A9999 returns #B1000; and unless the counter was {Z, 9999} the
\* id the next call returns is greater, as a string, than the id returned.
C20_SequenceStep ==
    [][NextDealIdCall =>
        LET id == procs'[1].id
            next == IdText(seq')
        IN /\ id[1] = 35
           /\ id[2] = seq.letter
           /\ \A i \in 3..Len(id) : id[i] \in 48..57
           /\ DecimalValue(SubSeq(id, 3, Len(id))) = seq.number
           /\ seq' = IF seq.number < 9999
                     THEN [letter |-> seq.letter, number |-> seq.number + 1]
                     ELSE IF seq.letter < 90
                          THEN [letter |-> seq.letter + 1, number |-> 1000]
                          ELSE [letter |-> 65, number |-> 1000]
           /\ id = <<35, 65, 57, 57, 57, 57>>
                => next = <<35, 66, 49, 48, 48, 48>>
           /\ ~(seq.letter = 90 /\ seq.number = 9999) => StrLess(id, next)]_vars

\* C20 witness: the second or a later call of a run has returned #B1000, so
\* the call before it returned #A9999.
C20_Witness ==
    /\ procs[1].op = "create"
    /\ procs[1].pc = "nextDealId"
    /\ procs[1].id = <<35, 66, 49, 48, 48, 48>>
    /\ clock >= 2

\* C21: every deal on the books has a price above 0; a createDeal that is
\* accepted stores a deal that is open, has nothing locked and no buyer; a
\* createDeal with a price that is not above 0 stores no deal and leaves the
\* id counter alone.
C21_PricePositive ==
    /\ [](\A id \in DOMAIN deals : deals[id].price > 0)
    /\ [][\A p \in Parties, v \in FinePriceInputs :
            Create(p, v) =>
                IF v > 0
                THEN /\ DealIdOf(seq) \in DOMAIN deals'
                     /\ deals'[DealIdOf(seq)].status = "open"
                     /\ deals'[DealIdOf(seq)].locked = 0
                     /\ deals'[DealIdOf(seq)].buyer = NoBuyer
                ELSE UNCHANGED <<deals, seq, dSeq>>]_vars

\* C22: a completion record, once stored under a deal id, is never changed,
\* replaced or removed by any later step.
C22_LogWriteOnce ==
    [][\A id \in DOMAIN logs :
            id \in DOMAIN logs' /\ logs'[id] = logs[id]]_vars

\* C23: a deal record, once stored under an id, stays: no step removes it
\* or puts another deal in its place, and its seller and price never change.
C23_DealsPermanent ==
    [][\A id \in DOMAIN deals :
            /\ id \in DOMAIN deals'
            /\ deals'[id].created_at = deals[id].created_at
            /\ deals'[id].seller = deals[id].seller
            /\ deals'[id].price = deals[id].price]_vars

\* C24: the step in which a message of buy, markSent or confirmReceived
\* fails changes no balance, no deal and no completion record, neither in
\* memory nor in the files.
C24_NotifyFailureKeepsCommit ==
    [][\A s \in Slots :
            (\/ BuyNotifyFailed(s)
             \/ MarkSentNotifyFailed(s)
             \/ ConfirmNotifyFailed(s))
                => UNCHANGED <<balances, deals, logs,
                               dBalances, dDeals, dLogs>>]_vars

\* C24 witness: a buy has written its debit and its lock to memory and to
\* both files and is about to send its first message.
C24_Witness ==
    \E s \in Slots :
        /\ procs[s].op = "buy"
        /\ procs[s].pc = "notify"
        /\ procs[s].id \in DOMAIN deals
        /\ procs[s].id \in DOMAIN dDeals
        /\ dDeals[procs[s].id] = deals[procs[s].id]
        /\ dBalances = balances
        /\ LET d == dDeals[procs[s].id] IN
              /\ d.status = "in_progress"
              /\ d.buyer = procs[s].loc
              /\ d.locked = d.price
              /\ d.price > 0
              /\ dBalances[d.buyer] = InitBalanceUnits * SubUnits - d.price

\* an amount with the digits after the eighth fractional digit dropped
Drop8(x) ==
    IF x >= 0 THEN (x \div SubUnits) * SubUnits
    ELSE 0 - (((0 - x) \div SubUnits) * SubUnits)

\* C25: every stored balance, price and locked amount is a multiple of
\* 10^-8, and the price stored by createDeal and the balance stored by
\* /givebalance are the exact values with the digits after the eighth
\* dropped.
C25_RoundingDrops ==
    /\ [](/\ \A p \in Parties : balances[p] % SubUnits = 0
          /\ \A id \in DOMAIN deals :
                /\ deals[id].price % SubUnits = 0
                /\ deals[id].locked % SubUnits = 0)
    /\ [][\A p \in Parties, v \in PriceInputs :
            CreateDeal(p, v) => deals'[DealIdOf(seq)].price = Drop8(v)]_vars
    /\ [][\/ UNCHANGED procs
          \/ \A args \in GiveArgs :
                (WellFormed(args) /\ GiveBalance(OWNER_ID, args))
                    => balances'[args.target] =
                          Drop8(balances[args.target] + args.amount.val)]_vars

\* C26: whenever no handler is in flight, the balances, the deals and the
\* sequence counter in the files equal the ones in memory.
C26_DiskConverges ==
    (\A s \in DOMAIN procs : procs[s].op = "idle")
        => /\ dBalances = balances
           /\ dDeals = deals
           /\ dSeq = seq

\* C27: a deal has a recorded buyer exactly if its status is not open.
C27_BuyerIffNotOpen ==
    \A id \in DOMAIN deals :
        (deals[id].buyer # NoBuyer) <=> (deals[id].status # "open")

====
